---- MODULE Spec2Model ----
(***************************************************************************)
(* Model of the event-timers notification engine:                          *)
(*   src/src/notification_logic.rs  update_notifications and the           *)
(*                                  occurrence calculator                  *)
(*   src/src/notifications.rs       NotificationState (ledger, toast       *)
(*                                  queue, upcoming projection)            *)
(*   src/src/ui/notifications.rs    toast dismissal                        *)
(*   src/src/lib.rs                 the toast hotkey                       *)
(* Instants are counted in units of 1/Res second; current_time is the      *)
(* wall clock in whole seconds, created_at the monotonic instant.          *)
(***************************************************************************)
EXTENDS Integers, Sequences, FiniteSets, TLC

VARIABLES
    clock,                  \* the host's time, in units of 1/Res second
    tracked_events,         \* RUNTIME_CONFIG.tracked_events
    oneshot_events,         \* RUNTIME_CONFIG.oneshot_events
    notification_config,    \* RUNTIME_CONFIG.notification_config
    tracks,                 \* RUNTIME_CONFIG.tracks
    toast_queue,            \* NOTIFICATION_STATE.toast_queue
    next_toast_id,          \* NOTIFICATION_STATE.next_toast_id
    notified_reminders,     \* NOTIFICATION_STATE.notified_reminders
    ongoing_last_notified,  \* NOTIFICATION_STATE.ongoing_last_notified
    event_last_notified,    \* NOTIFICATION_STATE.event_last_notified
    last_toast_time,        \* NOTIFICATION_STATE.last_toast_time
    upcoming_events,        \* NOTIFICATION_STATE.upcoming_events
    last_refresh_time,      \* NOTIFICATION_STATE.last_refresh_time
    pc,                     \* where the render thread is inside update_notifications
    current_time,           \* update_notifications: let current_time
    snap,                   \* update_notifications: the values cloned from RUNTIME_CONFIG
    oneshot_to_remove,      \* update_notifications: let mut oneshot_to_remove
    panicked,               \* the render callback has panicked
    minted,                 \* history: every toast ever handed to add_toast
    evals,                  \* history: the reminder evaluations of the latest refresh
    prev,                   \* history: what the previous call left behind
    dirty,                  \* history: tracks, subscriptions or configuration changed since the previous call returned
    ticks,                  \* number of calls of update_notifications so far
    ops,                    \* number of user operations so far
    t_in,                   \* occurrence calculator under test: its arguments
    t_out,                  \* occurrence calculator under test: its result
    holder,                 \* the thread inside each mutex, or "none"
    todo,                   \* per thread: the lock operations ahead in the function it runs
    r_fn,                   \* render thread: the function of the frame it runs or has finished
    show_main_window,       \* RUNTIME_CONFIG.show_main_window
    upcoming_panel_enabled, \* RUNTIME_CONFIG.notification_config.upcoming_panel_enabled
    preview_toast,          \* NOTIFICATION_STATE.preview_toast
    calls                   \* history: the add_toast, show_preview and dismiss calls made on the toast interface on its own

cfgvars == <<tracked_events, oneshot_events, notification_config, tracks>>
statevars == <<toast_queue, next_toast_id, notified_reminders, ongoing_last_notified,
               event_last_notified, last_toast_time, upcoming_events, last_refresh_time>>
tickvars == <<pc, current_time, snap, oneshot_to_remove, panicked>>
histvars == <<minted, evals, prev, dirty, ticks, ops>>
timingvars == <<t_in, t_out>>
lockvars == <<holder, todo, r_fn, show_main_window, upcoming_panel_enabled>>
previewvars == <<preview_toast, calls>>
vars == <<clock, cfgvars, statevars, tickvars, histvars, timingvars, lockvars, previewvars>>

----------------------------------------------------------------------------
(* Bounds of the model *)

Res == 2
MaxTicks == 2
MaxUserOps == 1
TimingSpan == 3
MaxToasts == 3

(* Program constants *)

SecondsPerMinute == 60
GlobalCooldownSeconds == 2
EventCooldownSeconds == 30
EventCooldownKeepSeconds == 300
NotifiedKeepSeconds == 86400
FadeSeconds == 1
MinUpcomingEvents == 5
MinToastDurationSeconds == 3

----------------------------------------------------------------------------
(* Arithmetic of i64 *)

Abs(x) == IF x < 0 THEN -x ELSE x

Max(a, b) == IF a >= b THEN a ELSE b

\* the remainder of i64 `%`, which takes the sign of the dividend
rem_euclid_Truncated(a, b) == IF a >= 0 THEN a % Abs(b) ELSE -((-a) % Abs(b))

\* i64::rem_euclid: the remainder in [0, |b|); b = 0 panics and is handled by the caller
rem_euclid(a, b) == a % Abs(b)

\* i64 `/`: division truncating toward zero
TruncDiv(a, b) ==
    IF (a >= 0) = (b > 0) THEN Abs(a) \div Abs(b) ELSE -(Abs(a) \div Abs(b))

get_current_unix_time == clock \div Res

----------------------------------------------------------------------------
(* The occurrence calculator *)

TimingPanic ==
    [ok |-> FALSE, start_time |-> 0, seconds_until |-> 0, seconds_into |-> 0,
     duration |-> 0, cycle_number |-> 0]

calculate_event_timing_SameCycle(track, event, now) ==
    IF event.cycle_duration = 0 THEN TimingPanic
    ELSE
    LET elapsed_since_base == now - track.base_time
        time_in_cycle == rem_euclid(elapsed_since_base, event.cycle_duration)
        cycle_number == TruncDiv(elapsed_since_base, event.cycle_duration)
        event_end_in_cycle == event.start_offset + event.duration
    IN  IF time_in_cycle >= event.start_offset /\ time_in_cycle < event_end_in_cycle
        THEN [ok |-> TRUE,
              start_time |-> (now - time_in_cycle) + event.start_offset,
              seconds_until |-> 0,
              seconds_into |-> time_in_cycle - event.start_offset,
              duration |-> event.duration,
              cycle_number |-> cycle_number]
        ELSE LET time_to_start == event.start_offset - time_in_cycle
             IN  [ok |-> TRUE,
                  start_time |-> now + time_to_start,
                  seconds_until |-> time_to_start,
                  seconds_into |-> -1,
                  duration |-> event.duration,
                  cycle_number |-> cycle_number]

calculate_event_timing(track, event, now) ==
    IF event.cycle_duration = 0 THEN TimingPanic
    ELSE
    LET elapsed_since_base == now - track.base_time
        time_in_cycle == rem_euclid(elapsed_since_base, event.cycle_duration)
        cycle_number == TruncDiv(elapsed_since_base, event.cycle_duration)
        event_end_in_cycle == event.start_offset + event.duration
    IN  IF time_in_cycle >= event.start_offset /\ time_in_cycle < event_end_in_cycle
        THEN [ok |-> TRUE,
              start_time |-> (now - time_in_cycle) + event.start_offset,
              seconds_until |-> 0,
              seconds_into |-> time_in_cycle - event.start_offset,
              duration |-> event.duration,
              cycle_number |-> cycle_number]
        ELSE LET d == event.start_offset - time_in_cycle
                 passed == d <= 0
                 time_to_start == IF passed THEN d + event.cycle_duration ELSE d
             IN  [ok |-> TRUE,
                  start_time |-> now + time_to_start,
                  seconds_until |-> time_to_start,
                  seconds_into |-> -1,
                  duration |-> event.duration,
                  cycle_number |-> IF passed THEN cycle_number + 1 ELSE cycle_number]

----------------------------------------------------------------------------
(* NotificationState *)

TrackedEventId(track_name, event_name) == <<track_name, event_name>>

NotifiedKey(event_id, start_time, minutes_before) ==
    [event_id |-> event_id, start_time |-> start_time, minutes_before |-> minutes_before]

OngoingNotificationKey(event_id, start_time) ==
    [event_id |-> event_id, start_time |-> start_time]

EmptyMap == [k \in {} |-> 0]

MapInsert(m, k, v) == [x \in (DOMAIN m) \cup {k} |-> IF x = k THEN v ELSE m[x]]

MapRetain(m, keep) == [x \in keep |-> m[x]]

can_add_toast_OffByOne(st, now) == now - st.last_toast_time >= GlobalCooldownSeconds - 1

can_add_toast(st, now) == now - st.last_toast_time >= GlobalCooldownSeconds

can_notify_event_GlobalPeriod(st, event_id, now) ==
    IF event_id \in DOMAIN st.event_last_notified
    THEN now - st.event_last_notified[event_id] >= GlobalCooldownSeconds
    ELSE TRUE

can_notify_event(st, event_id, now) ==
    IF event_id \in DOMAIN st.event_last_notified
    THEN now - st.event_last_notified[event_id] >= EventCooldownSeconds
    ELSE TRUE

mark_event_notified_Skipped(st, event_id, now) == st

mark_event_notified(st, event_id, now) ==
    [st EXCEPT !.event_last_notified = MapInsert(@, event_id, now)]

add_toast_NoStamp(st, event_id, event_start_time, minutes_until, now) ==
    [st EXCEPT !.toast_queue =
                   Append(@, [id |-> st.next_toast_id,
                              event_id |-> event_id,
                              event_start_time |-> event_start_time,
                              minutes_until |-> minutes_until,
                              created_at |-> clock,
                              opacity |-> Res,
                              dismissed |-> FALSE]),
               !.next_toast_id = @ + 1]

add_toast(st, event_id, event_start_time, minutes_until, now) ==
    [st EXCEPT !.toast_queue =
                   Append(@, [id |-> st.next_toast_id,
                              event_id |-> event_id,
                              event_start_time |-> event_start_time,
                              minutes_until |-> minutes_until,
                              created_at |-> clock,
                              opacity |-> Res,
                              dismissed |-> FALSE]),
               !.next_toast_id = @ + 1,
               !.last_toast_time = now]

mark_notified(st, event_id, start_time, minutes_before) ==
    [st EXCEPT !.notified_reminders =
                   @ \cup {NotifiedKey(event_id, start_time, minutes_before)}]

was_notified(st, event_id, start_time, minutes_before) ==
    NotifiedKey(event_id, start_time, minutes_before) \in st.notified_reminders

cleanup_old_notifications_FutureCutoff(st, now) ==
    LET cutoff == now + NotifiedKeepSeconds
    IN  [st EXCEPT
            !.notified_reminders = {key \in @ : key.start_time > cutoff},
            !.ongoing_last_notified =
                MapRetain(@, {key \in DOMAIN @ : key.start_time > cutoff}),
            !.event_last_notified =
                MapRetain(@, {e \in DOMAIN @ : now - @[e] < EventCooldownKeepSeconds})]

cleanup_old_notifications(st, now) ==
    LET cutoff == now - NotifiedKeepSeconds
    IN  [st EXCEPT
            !.notified_reminders = {key \in @ : key.start_time > cutoff},
            !.ongoing_last_notified =
                MapRetain(@, {key \in DOMAIN @ : key.start_time > cutoff}),
            !.event_last_notified =
                MapRetain(@, {e \in DOMAIN @ : now - @[e] < EventCooldownKeepSeconds})]

should_show_ongoing(st, event_id, start_time, now, interval_seconds) ==
    LET key == OngoingNotificationKey(event_id, start_time)
    IN  IF key \in DOMAIN st.ongoing_last_notified
        THEN now - st.ongoing_last_notified[key] >= interval_seconds
        ELSE TRUE

mark_ongoing_notified(st, event_id, start_time, now) ==
    [st EXCEPT !.ongoing_last_notified =
                   MapInsert(@, OngoingNotificationKey(event_id, start_time), now)]

FadedOpacity_Opaque(toast, toast_duration) ==
    LET elapsed == clock - toast.created_at
    IN  IF elapsed > toast_duration \/ toast.dismissed THEN 0 ELSE toast.opacity

\* one toast of update_toasts' loop: the opacity it is left with
FadedOpacity(toast, toast_duration) ==
    LET elapsed == clock - toast.created_at
        fade_start == toast_duration - FadeSeconds * Res
        faded == IF elapsed > fade_start
                 THEN Max(toast_duration - elapsed, 0)
                 ELSE toast.opacity
    IN  IF elapsed > toast_duration \/ toast.dismissed THEN 0 ELSE faded

RECURSIVE FadeAndRetain(_, _)
FadeAndRetain(queue, toast_duration) ==
    IF queue = <<>> THEN <<>>
    ELSE LET o == FadedOpacity(Head(queue), toast_duration)
             rest == FadeAndRetain(Tail(queue), toast_duration)
         IN  IF o > 0 THEN <<[Head(queue) EXCEPT !.opacity = o]>> \o rest ELSE rest

RECURSIVE PopFrontWhileOver(_, _)
PopFrontWhileOver(queue, max_visible) ==
    IF Len(queue) > max_visible THEN PopFrontWhileOver(Tail(queue), max_visible)
    ELSE queue

update_toasts_KeepOldest(queue, toast_duration, max_visible) ==
    LET live == FadeAndRetain(queue, toast_duration)
    IN  IF Len(live) > max_visible THEN SubSeq(live, 1, max_visible) ELSE live

\* toast_duration is in units of 1/Res second
update_toasts(queue, toast_duration, max_visible) ==
    PopFrontWhileOver(FadeAndRetain(queue, toast_duration), max_visible)

needs_refresh_Always(now) == TRUE

needs_refresh(now) == now # last_refresh_time

----------------------------------------------------------------------------
(* update_notifications: the loop over tracks, events and reminders.        *)
(* st is the NotificationState under the lock together with the locals of  *)
(* the call (upcoming, oneshot_to_remove) and the history it appends to.   *)

LeadWindow_Exclusive(seconds_until, reminder_seconds) ==
    seconds_until > 0 /\ seconds_until < reminder_seconds

\* lines 126-127: the window of a lead reminder
LeadWindow(seconds_until, reminder_seconds) ==
    seconds_until > 0 /\ seconds_until <= reminder_seconds

NotLastInterval_Inclusive(remaining_seconds, interval_seconds) ==
    remaining_seconds >= interval_seconds

\* line 99: an ongoing reminder keeps silent on the last interval
NotLastInterval(remaining_seconds, interval_seconds) ==
    remaining_seconds > interval_seconds

IntervalSeconds(reminder) == Max(reminder.ongoing_interval_minutes, 1) * SecondsPerMinute

Mint(st, event_id, tm, reminder, now) ==
    [id |-> st.next_toast_id, event_id |-> event_id, start_time |-> tm.start_time,
     minutes_before |-> reminder.minutes_before, time |-> now,
     seconds_until |-> tm.seconds_until, seconds_into |-> tm.seconds_into,
     duration |-> tm.duration, interval |-> IntervalSeconds(reminder)]

Evaluation(st, event_id, tm, reminder, now, fire) ==
    [event_id |-> event_id, start_time |-> tm.start_time,
     minutes_before |-> reminder.minutes_before,
     seconds_until |-> tm.seconds_until, seconds_into |-> tm.seconds_into,
     duration |-> tm.duration, interval |-> IntervalSeconds(reminder),
     can_add |-> can_add_toast(st, now),
     can_notify |-> can_notify_event(st, event_id, now),
     was_notified |-> was_notified(st, event_id, tm.start_time, reminder.minutes_before),
     fired |-> fire]

ProcessReminder_DropsBlocked(st, event_id, tm, reminder, now) ==
    LET reminder_seconds == reminder.minutes_before * SecondsPerMinute
        interval_seconds == IntervalSeconds(reminder)
        remaining_seconds == tm.duration - tm.seconds_into
        fire ==
            IF reminder.minutes_before = 0
            THEN /\ tm.seconds_into >= 0
                 /\ NotLastInterval(remaining_seconds, interval_seconds)
                 /\ can_add_toast(st, now)
                 /\ can_notify_event(st, event_id, now)
                 /\ should_show_ongoing(st, event_id, tm.start_time, now, interval_seconds)
            ELSE /\ LeadWindow(tm.seconds_until, reminder_seconds)
                 /\ can_add_toast(st, now)
                 /\ can_notify_event(st, event_id, now)
                 /\ ~was_notified(st, event_id, tm.start_time, reminder.minutes_before)
        minutes ==
            IF reminder.minutes_before = 0
            THEN -(tm.seconds_into \div SecondsPerMinute)
            ELSE (tm.seconds_until + 59) \div SecondsPerMinute
        logged == [st EXCEPT !.evals = Append(@, Evaluation(st, event_id, tm, reminder, now, fire))]
    IN  IF ~fire
        THEN IF reminder.minutes_before > 0 /\ LeadWindow(tm.seconds_until, reminder_seconds)
             THEN mark_notified(logged, event_id, tm.start_time, reminder.minutes_before)
             ELSE logged
        ELSE LET toasted == add_toast([logged EXCEPT !.minted =
                                           Append(@, Mint(st, event_id, tm, reminder, now))],
                                      event_id, tm.start_time, minutes, now)
                 keyed == IF reminder.minutes_before = 0
                          THEN mark_ongoing_notified(toasted, event_id, tm.start_time, now)
                          ELSE mark_notified(toasted, event_id, tm.start_time,
                                             reminder.minutes_before)
             IN  mark_event_notified(keyed, event_id, now)

\* lines 90-145: one reminder of one event
ProcessReminder(st, event_id, tm, reminder, now) ==
    LET reminder_seconds == reminder.minutes_before * SecondsPerMinute
        interval_seconds == IntervalSeconds(reminder)
        remaining_seconds == tm.duration - tm.seconds_into
        fire ==
            IF reminder.minutes_before = 0
            THEN /\ tm.seconds_into >= 0
                 /\ NotLastInterval(remaining_seconds, interval_seconds)
                 /\ can_add_toast(st, now)
                 /\ can_notify_event(st, event_id, now)
                 /\ should_show_ongoing(st, event_id, tm.start_time, now, interval_seconds)
            ELSE /\ LeadWindow(tm.seconds_until, reminder_seconds)
                 /\ can_add_toast(st, now)
                 /\ can_notify_event(st, event_id, now)
                 /\ ~was_notified(st, event_id, tm.start_time, reminder.minutes_before)
        minutes ==
            IF reminder.minutes_before = 0
            THEN -(tm.seconds_into \div SecondsPerMinute)
            ELSE (tm.seconds_until + 59) \div SecondsPerMinute
        logged == [st EXCEPT !.evals = Append(@, Evaluation(st, event_id, tm, reminder, now, fire))]
    IN  IF ~fire THEN logged
        ELSE LET toasted == add_toast([logged EXCEPT !.minted =
                                           Append(@, Mint(st, event_id, tm, reminder, now))],
                                      event_id, tm.start_time, minutes, now)
                 keyed == IF reminder.minutes_before = 0
                          THEN mark_ongoing_notified(toasted, event_id, tm.start_time, now)
                          ELSE mark_notified(toasted, event_id, tm.start_time,
                                             reminder.minutes_before)
             IN  mark_event_notified(keyed, event_id, now)

RECURSIVE ProcessReminders(_, _, _, _, _)
ProcessReminders(st, event_id, tm, reminders, now) ==
    IF reminders = <<>> THEN st
    ELSE ProcessReminders(ProcessReminder(st, event_id, tm, Head(reminders), now),
                          event_id, tm, Tail(reminders), now)

UpcomingEvent(event_id, tm) ==
    [event_id |-> event_id, start_time |-> tm.start_time,
     seconds_until |-> tm.seconds_until,
     seconds_into |-> IF tm.seconds_into >= 0 THEN tm.seconds_into ELSE 0]

ProcessEvent_IgnoreEnabled(st, track, event, sn, now) ==
    LET event_id == TrackedEventId(track.name, event.name)
        is_tracked == event_id \in sn.tracked_events
        is_oneshot == event_id \in sn.oneshot_events
        tm == calculate_event_timing(track, event, now)
    IN  IF ~is_tracked /\ ~is_oneshot THEN st
        ELSE IF ~tm.ok THEN [st EXCEPT !.panicked = TRUE]
        ELSE LET pushed == [st EXCEPT
                               !.upcoming = Append(@, UpcomingEvent(event_id, tm)),
                               !.oneshot_to_remove =
                                   IF is_oneshot /\ tm.seconds_into >= 0
                                   THEN Append(@, event_id) ELSE @]
             IN  IF sn.notification_config.toast_enabled
                 THEN ProcessReminders(pushed, event_id, tm,
                                       sn.notification_config.reminders, now)
                 ELSE pushed

\* lines 55-148: one event of a visible track
ProcessEvent(st, track, event, sn, now) ==
    LET event_id == TrackedEventId(track.name, event.name)
        is_tracked == event_id \in sn.tracked_events
        is_oneshot == event_id \in sn.oneshot_events
        tm == calculate_event_timing(track, event, now)
    IN  IF ~event.enabled \/ (~is_tracked /\ ~is_oneshot) THEN st
        ELSE IF ~tm.ok THEN [st EXCEPT !.panicked = TRUE]
        ELSE LET pushed == [st EXCEPT
                               !.upcoming = Append(@, UpcomingEvent(event_id, tm)),
                               !.oneshot_to_remove =
                                   IF is_oneshot /\ tm.seconds_into >= 0
                                   THEN Append(@, event_id) ELSE @]
             IN  IF sn.notification_config.toast_enabled
                 THEN ProcessReminders(pushed, event_id, tm,
                                       sn.notification_config.reminders, now)
                 ELSE pushed

RECURSIVE ProcessEvents(_, _, _, _, _)
ProcessEvents(st, track, events, sn, now) ==
    IF events = <<>> \/ st.panicked THEN st
    ELSE ProcessEvents(ProcessEvent(st, track, Head(events), sn, now),
                       track, Tail(events), sn, now)

RECURSIVE ProcessTracks(_, _, _, _)
ProcessTracks(st, trks, sn, now) ==
    IF trks = <<>> \/ st.panicked THEN st
    ELSE ProcessTracks(IF Head(trks).visible
                       THEN ProcessEvents(st, Head(trks), Head(trks).events, sn, now)
                       ELSE st,
                       Tail(trks), sn, now)

\* Vec::sort_by_key is stable: an entry goes after the entries whose key is not greater
RECURSIVE InsertByKey(_, _)
InsertByKey(sorted, e) ==
    IF sorted = <<>> THEN <<e>>
    ELSE IF Head(sorted).seconds_until <= e.seconds_until
         THEN <<Head(sorted)>> \o InsertByKey(Tail(sorted), e)
         ELSE <<e>> \o sorted

RECURSIVE sort_by_key(_)
sort_by_key(s) ==
    IF s = <<>> THEN <<>>
    ELSE InsertByKey(sort_by_key(SubSeq(s, 1, Len(s) - 1)), s[Len(s)])

truncate(s, n) == IF Len(s) > n THEN SubSeq(s, 1, n) ELSE s

----------------------------------------------------------------------------
(* The configurations the program is started with (load_user_config)       *)

EventA == [name |-> "A", start_offset |-> 120, duration |-> 180, cycle_duration |-> 600,
           enabled |-> TRUE]
EventB == [name |-> "B", start_offset |-> 120, duration |-> 120, cycle_duration |-> 600,
           enabled |-> TRUE]
EventN == [name |-> "N", start_offset |-> 120, duration |-> 180, cycle_duration |-> -600,
           enabled |-> TRUE]
EventZ == [name |-> "Z", start_offset |-> 120, duration |-> 180, cycle_duration |-> 0,
           enabled |-> TRUE]

\* a disabled event, which would otherwise be inside the 1-minute window at 60
EventD == [name |-> "D", start_offset |-> 90, duration |-> 60, cycle_duration |-> 600,
           enabled |-> FALSE]
\* an event with a negative start_offset
EventM == [name |-> "M", start_offset |-> -500, duration |-> 60, cycle_duration |-> 600,
           enabled |-> TRUE]
EventE == [name |-> "E", start_offset |-> 300, duration |-> 60, cycle_duration |-> 600,
           enabled |-> TRUE]
EventF == [name |-> "F", start_offset |-> 30, duration |-> 20, cycle_duration |-> 600,
           enabled |-> TRUE]
EventG == [name |-> "G", start_offset |-> 200, duration |-> 60, cycle_duration |-> 600,
           enabled |-> TRUE]

Track(events) == [name |-> "T", base_time |-> 0, visible |-> TRUE, events |-> events]

\* an event whose occurrence lasts longer than the ledger keeps its keys, in a track
\* whose cycle began more than a day before the session
EventL == [name |-> "L", start_offset |-> 0, duration |-> 100000, cycle_duration |-> 200000,
           enabled |-> TRUE]
LongTrack == [name |-> "L", base_time |-> -90000, visible |-> TRUE, events |-> <<EventL>>]

\* a track the user has hidden
HiddenTrack == [name |-> "H", base_time |-> 0, visible |-> FALSE, events |-> <<EventA>>]

Id(event) == TrackedEventId("T", event.name)

Lead(m) == [minutes_before |-> m, ongoing_interval_minutes |-> 5]
Ongoing(i) == [minutes_before |-> 0, ongoing_interval_minutes |-> i]

NotificationConfig(max_visible) ==
    [toast_enabled |-> TRUE,
     reminders |-> <<Lead(1), Lead(2), Ongoing(1)>>,
     toast_duration_seconds |-> 5,
     max_visible_toasts |-> max_visible,
     max_upcoming_events |-> 10]

\* oneshot_events is never stored: every session starts without one-shot subscriptions
Presets ==
    { [tracks |-> <<Track(<<EventA, EventB>>)>>,
       tracked_events |-> {Id(EventA), Id(EventB)},
       notification_config |-> NotificationConfig(1)],
      [tracks |-> <<Track(<<EventA, EventB>>)>>,
       tracked_events |-> {},
       notification_config |-> NotificationConfig(3)],
      [tracks |-> <<Track(<<EventA, EventB>>)>>,
       tracked_events |-> {Id(EventB)},
       notification_config |->
           [NotificationConfig(3) EXCEPT !.toast_duration_seconds = MinToastDurationSeconds]],
      [tracks |-> <<Track(<<EventN, EventA, EventZ>>)>>,
       tracked_events |-> {Id(EventN), Id(EventA)},
       notification_config |-> NotificationConfig(3)],
      [tracks |-> <<Track(<<EventA, EventZ>>)>>,
       tracked_events |-> {Id(EventZ)},
       notification_config |-> NotificationConfig(3)],
      [tracks |-> <<Track(<<EventA, EventB, EventD, EventM, EventE, EventF, EventG>>),
                    HiddenTrack>>,
       tracked_events |-> {Id(EventA), Id(EventB), Id(EventD), Id(EventM), Id(EventE),
                           Id(EventF), Id(EventG), TrackedEventId("H", "A")},
       notification_config |->
           [NotificationConfig(3) EXCEPT !.max_upcoming_events = MinUpcomingEvents]],
      [tracks |-> <<LongTrack>>,
       tracked_events |-> {TrackedEventId("L", "L")},
       notification_config |-> [NotificationConfig(3) EXCEPT !.reminders = <<Ongoing(1)>>]] }

StartClock == 60 * Res

\* the time that passes between two frames, in units of 1/Res second
Steps == {1, 2 * Res + 1, 30 * Res, 60 * Res, NotifiedKeepSeconds * Res}

\* the events whose context menu the user opens: the first two of the first track
UserEvents ==
    {TrackedEventId(tracks[1].name, tracks[1].events[j].name) :
        j \in (DOMAIN tracks[1].events) \cap (1..2)}

----------------------------------------------------------------------------
(* State *)

NoTiming == [ok |-> FALSE, start_time |-> 0, seconds_until |-> 0, seconds_into |-> 0,
             duration |-> 0, cycle_number |-> 0, done |-> FALSE]

IdleTiming == [start_offset |-> 0, duration |-> 1, cycle_duration |-> 1,
               base_time |-> 0, now |-> 0]

Ledger == [notified_reminders |-> notified_reminders,
           ongoing_last_notified |-> ongoing_last_notified,
           event_last_notified |-> event_last_notified,
           last_toast_time |-> last_toast_time]

NoSnapshot == [tracked_events |-> {}, oneshot_events |-> {},
               notification_config |-> NotificationConfig(3), tracks |-> <<>>]

Threads == {"render", "hotkey"}

\* no thread is inside one of the program's functions
LocksIdle ==
    /\ holder = [m \in {"RUNTIME_CONFIG", "USER_CONFIG", "NOTIFICATION_STATE"} |-> "none"]
    /\ todo = [t \in Threads |-> <<>>]
    /\ r_fn = 0
    /\ show_main_window = TRUE
    /\ upcoming_panel_enabled = TRUE

\* NotificationState::new and the locals of a call not yet made; preview_toast is
\* None (the empty sequence) or Some (a sequence of one toast)
StateInit ==
    /\ toast_queue = <<>>
    /\ next_toast_id = 0
    /\ notified_reminders = {}
    /\ ongoing_last_notified = EmptyMap
    /\ event_last_notified = EmptyMap
    /\ last_toast_time = 0
    /\ upcoming_events = <<>>
    /\ last_refresh_time = 0
    /\ pc = "idle"
    /\ current_time = 0
    /\ snap = NoSnapshot
    /\ oneshot_to_remove = <<>>
    /\ preview_toast = <<>>
    /\ calls = <<>>
    /\ panicked = FALSE
    /\ minted = <<>>
    /\ evals = <<>>
    /\ prev = [time |-> -1, upcoming |-> <<>>, ledger |-> Ledger, nminted |-> 0,
               repeat |-> FALSE]
    /\ dirty = FALSE
    /\ ticks = 0
    /\ ops = 0

Init ==
    /\ clock = StartClock
    /\ \E p \in Presets :
        /\ tracks = p.tracks
        /\ tracked_events = p.tracked_events
        /\ oneshot_events = {}
        /\ notification_config = p.notification_config
    /\ StateInit
    /\ t_in = IdleTiming
    /\ t_out = NoTiming
    /\ LocksIdle

----------------------------------------------------------------------------
(* update_notifications, one action per critical section *)

Returned(upcoming, ledger, nminted) ==
    /\ prev' = [time |-> current_time, upcoming |-> upcoming, ledger |-> ledger,
                nminted |-> nminted, repeat |-> (current_time = prev.time /\ ~dirty)]
    /\ dirty' = FALSE

\* lines 8-18: read the clock, clone what the call needs from RUNTIME_CONFIG
TickSnapshot ==
    /\ pc = "idle" /\ ~panicked /\ ticks < MaxTicks
    /\ \E d \in Steps : clock' = clock + d
    /\ current_time' = clock' \div Res
    /\ snap' = [tracked_events |-> tracked_events, oneshot_events |-> oneshot_events,
                notification_config |-> notification_config, tracks |-> tracks]
    /\ oneshot_to_remove' = <<>>
    /\ pc' = IF tracked_events = {} /\ oneshot_events = {} THEN "early" ELSE "locked"
    /\ ticks' = ticks + 1
    /\ UNCHANGED <<cfgvars, statevars, panicked, minted, evals, prev, dirty, ops, timingvars, lockvars, previewvars>>

TickEarlyExit_UpdatesToasts ==
    /\ pc = "early" /\ ~panicked
    /\ upcoming_events' = <<>>
    /\ toast_queue' = update_toasts(toast_queue,
                                    snap.notification_config.toast_duration_seconds * Res,
                                    snap.notification_config.max_visible_toasts)
    /\ pc' = "idle"
    /\ Returned(<<>>, Ledger, Len(minted))
    /\ UNCHANGED <<clock, cfgvars, next_toast_id, notified_reminders,
                   ongoing_last_notified, event_last_notified, last_toast_time,
                   last_refresh_time, current_time, snap, oneshot_to_remove, panicked,
                   minted, evals, ticks, ops, timingvars, lockvars, previewvars>>

\* lines 21-25: nothing is subscribed
TickEarlyExit ==
    /\ pc = "early" /\ ~panicked
    /\ upcoming_events' = <<>>
    /\ pc' = "idle"
    /\ Returned(<<>>, Ledger, Len(minted))
    /\ UNCHANGED <<clock, cfgvars, toast_queue, next_toast_id, notified_reminders,
                   ongoing_last_notified, event_last_notified, last_toast_time,
                   last_refresh_time, current_time, snap, oneshot_to_remove, panicked,
                   minted, evals, ticks, ops, timingvars, lockvars, previewvars>>

\* lines 28-161: everything done under the NOTIFICATION_STATE lock
TickLocked ==
    /\ pc = "locked" /\ ~panicked
    /\ LET nc == snap.notification_config
           faded == update_toasts(toast_queue, nc.toast_duration_seconds * Res,
                                  nc.max_visible_toasts)
       IN  IF ~needs_refresh(current_time)
           THEN /\ toast_queue' = faded
                /\ pc' = "idle"
                /\ Returned(upcoming_events, Ledger, Len(minted))
                /\ UNCHANGED <<next_toast_id, notified_reminders, ongoing_last_notified,
                               event_last_notified, last_toast_time, upcoming_events,
                               last_refresh_time, oneshot_to_remove, panicked, minted,
                               evals>>
           ELSE LET st0 == [toast_queue |-> faded,
                            next_toast_id |-> next_toast_id,
                            notified_reminders |-> notified_reminders,
                            ongoing_last_notified |-> ongoing_last_notified,
                            event_last_notified |-> event_last_notified,
                            last_toast_time |-> last_toast_time,
                            upcoming |-> <<>>,
                            oneshot_to_remove |-> <<>>,
                            minted |-> minted,
                            evals |-> <<>>,
                            panicked |-> FALSE]
                    st == ProcessTracks(cleanup_old_notifications(st0, current_time),
                                        snap.tracks, snap, current_time)
                    upcoming == truncate(sort_by_key(st.upcoming), nc.max_upcoming_events)
                    ledger == [notified_reminders |-> st.notified_reminders,
                               ongoing_last_notified |-> st.ongoing_last_notified,
                               event_last_notified |-> st.event_last_notified,
                               last_toast_time |-> st.last_toast_time]
                IN  /\ last_refresh_time' = current_time
                    /\ toast_queue' = st.toast_queue
                    /\ next_toast_id' = st.next_toast_id
                    /\ notified_reminders' = st.notified_reminders
                    /\ ongoing_last_notified' = st.ongoing_last_notified
                    /\ event_last_notified' = st.event_last_notified
                    /\ last_toast_time' = st.last_toast_time
                    /\ minted' = st.minted
                    /\ evals' = st.evals
                    /\ panicked' = st.panicked
                    /\ IF st.panicked
                       THEN /\ pc' = "panic"
                            /\ UNCHANGED <<upcoming_events, oneshot_to_remove, prev, dirty>>
                       ELSE /\ upcoming_events' = upcoming
                            /\ oneshot_to_remove' = st.oneshot_to_remove
                            /\ IF st.oneshot_to_remove = <<>>
                               THEN /\ pc' = "idle"
                                    /\ Returned(upcoming, ledger, Len(st.minted))
                               ELSE /\ pc' = "remove"
                                    /\ UNCHANGED <<prev, dirty>>
    /\ UNCHANGED <<clock, cfgvars, current_time, snap, ticks, ops, timingvars, lockvars, previewvars>>

\* lines 164-169: the deferred removals, under the RUNTIME_CONFIG lock
TickRemoveOneshot ==
    /\ pc = "remove" /\ ~panicked
    /\ oneshot_events' = oneshot_events \ {oneshot_to_remove[i] : i \in DOMAIN oneshot_to_remove}
    /\ oneshot_to_remove' = <<>>
    /\ pc' = "idle"
    /\ Returned(upcoming_events, Ledger, Len(minted))
    /\ UNCHANGED <<clock, tracked_events, notification_config, tracks, statevars,
                   current_time, snap, panicked, minted, evals, ticks, ops, timingvars, lockvars, previewvars>>

----------------------------------------------------------------------------
(* What the user does between two frames, and the hotkey thread *)

UserOp ==
    /\ ~panicked /\ ops < MaxUserOps
    /\ ops' = ops + 1

toggle_event_tracking(event_id) ==
    /\ pc = "idle" /\ UserOp
    /\ tracked_events' = IF event_id \in tracked_events
                         THEN tracked_events \ {event_id}
                         ELSE tracked_events \cup {event_id}
    /\ dirty' = TRUE
    /\ UNCHANGED <<clock, oneshot_events, notification_config, tracks, statevars, tickvars,
                   minted, evals, prev, ticks, timingvars, lockvars, previewvars>>

\* the context menu offers the one-shot entry for events that are not tracked
toggle_oneshot_tracking(event_id) ==
    /\ pc = "idle" /\ UserOp
    /\ event_id \notin tracked_events
    /\ oneshot_events' = IF event_id \in oneshot_events
                         THEN oneshot_events \ {event_id}
                         ELSE oneshot_events \cup {event_id}
    /\ dirty' = TRUE
    /\ UNCHANGED <<clock, tracked_events, notification_config, tracks, statevars, tickvars,
                   minted, evals, prev, ticks, timingvars, lockvars, previewvars>>

\* render_toast_notifications: the close button of a rendered toast
DismissToast(i) ==
    /\ pc = "idle" /\ UserOp
    /\ notification_config.toast_enabled
    /\ i \in DOMAIN toast_queue
    /\ toast_queue' = [toast_queue EXCEPT ![i].dismissed = TRUE]
    /\ UNCHANGED <<clock, cfgvars, next_toast_id, notified_reminders, ongoing_last_notified,
                   event_last_notified, last_toast_time, upcoming_events, last_refresh_time,
                   tickvars, minted, evals, prev, dirty, ticks, timingvars, lockvars, previewvars>>

\* the hotkey runs on a thread of the host, also while a call is in flight
toggle_toasts_keybind ==
    /\ UserOp
    /\ notification_config' = [notification_config EXCEPT !.toast_enabled = ~@]
    /\ dirty' = TRUE
    /\ UNCHANGED <<clock, tracked_events, oneshot_events, tracks, statevars, tickvars,
                   minted, evals, prev, ticks, timingvars, lockvars, previewvars>>

Next ==
    \/ TickSnapshot
    \/ TickEarlyExit
    \/ TickLocked
    \/ TickRemoveOneshot
    \/ \E e \in UserEvents : toggle_event_tracking(e)
    \/ \E e \in UserEvents : toggle_oneshot_tracking(e)
    \/ \E i \in DOMAIN toast_queue : DismissToast(i)
    \/ toggle_toasts_keybind

Spec == Init /\ [][Next]_vars

----------------------------------------------------------------------------
(* The subscription store with the settings panel open *)

\* the search results list the enabled events of visible tracks that are in
\* neither set
SearchResults ==
    UNION {{TrackedEventId(tracks[i].name, tracks[i].events[j].name) :
              j \in {k \in DOMAIN tracks[i].events : tracks[i].events[k].enabled}}
           : i \in {k \in DOMAIN tracks : tracks[k].visible}}
      \ (tracked_events \cup oneshot_events)

\* the "Track" button of a search result
search_Track(event_id) ==
    /\ pc = "idle" /\ ~panicked
    /\ event_id \in SearchResults
    /\ tracked_events' = tracked_events \cup {event_id}
    /\ dirty' = TRUE
    /\ UNCHANGED <<clock, oneshot_events, notification_config, tracks, statevars, tickvars,
                   minted, evals, prev, ticks, ops, timingvars, lockvars, previewvars>>

\* the "Next" button of a search result
search_Next(event_id) ==
    /\ pc = "idle" /\ ~panicked
    /\ event_id \in SearchResults
    /\ oneshot_events' = oneshot_events \cup {event_id}
    /\ dirty' = TRUE
    /\ UNCHANGED <<clock, tracked_events, notification_config, tracks, statevars, tickvars,
                   minted, evals, prev, ticks, ops, timingvars, lockvars, previewvars>>

set_event_tracking(event_id, tracked) ==
    /\ pc = "idle" /\ UserOp
    /\ tracked_events' = IF tracked
                         THEN tracked_events \cup {event_id}
                         ELSE tracked_events \ {event_id}
    /\ dirty' = TRUE
    /\ UNCHANGED <<clock, oneshot_events, notification_config, tracks, statevars, tickvars,
                   minted, evals, prev, ticks, timingvars, lockvars, previewvars>>

StoreNext ==
    \/ Next
    \/ \E e \in UserEvents : search_Track(e)
    \/ \E e \in UserEvents : search_Next(e)
    \/ \E e \in UserEvents, tracked \in BOOLEAN : set_event_tracking(e, tracked)

SpecStore == Init /\ [][StoreNext]_vars

----------------------------------------------------------------------------
(* The occurrence calculator on its own *)

TimingInputs ==
    [start_offset : (-TimingSpan - 1)..(TimingSpan + 2),
     duration : 1..TimingSpan,
     cycle_duration : (-1)..TimingSpan,
     base_time : {-2, 0, 1},
     now : (-TimingSpan)..(2 * TimingSpan)]

\* the worked example: cycle 7200, offset 0, duration 300, anchor 0
TimingScenarios ==
    {[start_offset |-> 0, duration |-> 300, cycle_duration |-> 7200, base_time |-> 0,
      now |-> n] : n \in {7150, 7200, 7500}}

TimingInit ==
    /\ clock = StartClock
    /\ tracks = <<>>
    /\ tracked_events = {}
    /\ oneshot_events = {}
    /\ notification_config = NotificationConfig(3)
    /\ StateInit
    /\ t_in \in TimingInputs \cup TimingScenarios
    /\ t_out = NoTiming
    /\ LocksIdle

TimingCalc ==
    /\ ~t_out.done
    /\ LET r == calculate_event_timing([base_time |-> t_in.base_time],
                                       [start_offset |-> t_in.start_offset,
                                        duration |-> t_in.duration,
                                        cycle_duration |-> t_in.cycle_duration],
                                       t_in.now)
       IN  t_out' = [ok |-> r.ok, start_time |-> r.start_time,
                     seconds_until |-> r.seconds_until, seconds_into |-> r.seconds_into,
                     duration |-> r.duration, cycle_number |-> r.cycle_number,
                     done |-> TRUE]
    /\ UNCHANGED <<clock, cfgvars, statevars, tickvars, histvars, t_in, lockvars, previewvars>>

TimingNext == TimingCalc

SpecTiming == TimingInit /\ [][TimingNext]_vars

----------------------------------------------------------------------------
(* The critical sections of the render thread and of the hotkey callbacks.  *)
(* A function is the sequence of the lock operations it performs; a flag   *)
(* it reads under a lock is tested where it is read.                       *)

RC == "RUNTIME_CONFIG"
UC == "USER_CONFIG"
NS == "NOTIFICATION_STATE"

Lock(m) == [op |-> "lock", m |-> m, then |-> <<>>, else |-> <<>>]
Unlock(m) == [op |-> "unlock", m |-> m, then |-> <<>>, else |-> <<>>]
\* a write of a boolean field of RUNTIME_CONFIG: "flip" negates it, "clear" resets it
Flip(field) == [op |-> "flip", m |-> field, then |-> <<>>, else |-> <<>>]
Clear(field) == [op |-> "clear", m |-> field, then |-> <<>>, else |-> <<>>]
If(field, then, else) == [op |-> "if", m |-> field, then |-> then, else |-> else]

\* notification_logic.rs:7-170; the last two operations are the one-shot removals
update_notifications_locks ==
    {<<Lock(RC), Unlock(RC), Lock(NS), Unlock(NS)>> \o removal :
        removal \in {<<>>, <<Lock(RC), Unlock(RC)>>}}

\* config.rs:749-768, called for a track drawn by render_timeline_track
get_track_visual_config_locks == <<Lock(UC), Unlock(UC)>>

\* ui/main_window.rs:29-312: a pending toggle first, then the window under the
\* config lock, closed by Escape or drawn track by track
render_main_window_locks ==
    {pending \o <<Lock(RC)>> \o escape
         \o <<If("show_main_window", get_track_visual_config_locks, <<>>), Unlock(RC)>> :
        pending \in {<<>>, <<Lock(RC), Unlock(RC)>>},
        escape \in {<<>>, <<Clear("show_main_window")>>}}

\* ui/notifications.rs:159-246: the preview, then the queue, then the dismissals
render_toast_notifications_locks ==
    {<<Lock(RC),
       If("toast_enabled",
          <<Unlock(RC), Lock(NS), Unlock(NS), Lock(NS), Unlock(NS)>> \o dismiss,
          <<Unlock(RC), Lock(NS), Unlock(NS)>>)>> :
        dismiss \in {<<>>, <<Lock(NS), Unlock(NS)>>}}

\* ui/notifications.rs:256-418: the panel, closed by its button or not, then the untrack
render_upcoming_panel_locks ==
    {<<Lock(RC),
       If("upcoming_panel_enabled",
          <<Unlock(RC), Lock(NS), Unlock(NS)>> \o closed \o untrack,
          <<Unlock(RC)>>)>> :
        closed \in {<<>>, <<Lock(RC), Clear("upcoming_panel_enabled"), Unlock(RC)>>},
        untrack \in {<<>>, <<Lock(RC), Unlock(RC)>>}}

\* config.rs:494-577: USER_CONFIG, released, then RUNTIME_CONFIG
apply_user_overrides_locks == <<Lock(UC), Unlock(UC), Lock(RC), Unlock(RC)>>

\* ui/settings.rs:109-822: the whole panel under the config lock; the options
\* window may be closed, Preview Toast and Reset All Settings may be clicked
render_settings_locks ==
    {<<>>} \cup
    {<<Lock(RC)>> \o preview \o reset \o <<Unlock(RC)>> :
        preview \in {<<>>, <<Lock(NS), Unlock(NS)>>},
        reset \in {<<>>, <<Lock(UC), Unlock(UC)>> \o apply_user_overrides_locks}}

\* lib.rs:79-90: the two render callbacks, in the order the host calls them
FrameFunctions ==
    <<update_notifications_locks, render_main_window_locks,
      render_toast_notifications_locks, render_upcoming_panel_locks,
      render_settings_locks>>

\* lib.rs:30-49
keybind_locks ==
    {<<Lock(RC), Flip(field), Unlock(RC)>> :
        field \in {"show_main_window", "toast_enabled", "upcoming_panel_enabled"}}

FlagValue(field) ==
    CASE field = "show_main_window" -> show_main_window
      [] field = "toast_enabled" -> notification_config.toast_enabled
      [] field = "upcoming_panel_enabled" -> upcoming_panel_enabled

Ahead(t) == Head(todo[t])

\* the render thread enters the next function of the frame
RenderCall ==
    /\ todo["render"] = <<>>
    /\ r_fn' = (r_fn % Len(FrameFunctions)) + 1
    /\ \E path \in FrameFunctions[r_fn'] : todo' = [todo EXCEPT !["render"] = path]
    /\ UNCHANGED <<clock, cfgvars, statevars, tickvars, histvars, timingvars, previewvars, holder,
                   show_main_window, upcoming_panel_enabled>>

\* the host runs a hotkey callback on its own thread
KeybindCall ==
    /\ todo["hotkey"] = <<>>
    /\ \E path \in keybind_locks : todo' = [todo EXCEPT !["hotkey"] = path]
    /\ UNCHANGED <<clock, cfgvars, statevars, tickvars, histvars, timingvars, previewvars, holder, r_fn,
                   show_main_window, upcoming_panel_enabled>>

\* Mutex::lock: waits until the mutex is free, also when the caller holds it itself
MutexLock(t) ==
    /\ todo[t] # <<>> /\ Ahead(t).op = "lock"
    /\ holder[Ahead(t).m] = "none"
    /\ holder' = [holder EXCEPT ![Ahead(t).m] = t]
    /\ todo' = [todo EXCEPT ![t] = Tail(@)]
    /\ UNCHANGED <<clock, cfgvars, statevars, tickvars, histvars, timingvars, previewvars, r_fn,
                   show_main_window, upcoming_panel_enabled>>

\* the guard is dropped
MutexUnlock(t) ==
    /\ todo[t] # <<>> /\ Ahead(t).op = "unlock"
    /\ holder' = [holder EXCEPT ![Ahead(t).m] = "none"]
    /\ todo' = [todo EXCEPT ![t] = Tail(@)]
    /\ UNCHANGED <<clock, cfgvars, statevars, tickvars, histvars, timingvars, previewvars, r_fn,
                   show_main_window, upcoming_panel_enabled>>

ConfigWrite(t) ==
    /\ todo[t] # <<>> /\ Ahead(t).op \in {"flip", "clear"}
    /\ LET value == IF Ahead(t).op = "flip" THEN ~FlagValue(Ahead(t).m) ELSE FALSE
           field == Ahead(t).m
       IN  /\ show_main_window' =
                  IF field = "show_main_window" THEN value ELSE show_main_window
           /\ upcoming_panel_enabled' =
                  IF field = "upcoming_panel_enabled" THEN value ELSE upcoming_panel_enabled
           /\ notification_config' =
                  IF field = "toast_enabled"
                  THEN [notification_config EXCEPT !.toast_enabled = value]
                  ELSE notification_config
    /\ todo' = [todo EXCEPT ![t] = Tail(@)]
    /\ UNCHANGED <<clock, tracked_events, oneshot_events, tracks, statevars, tickvars,
                   histvars, timingvars, previewvars, holder, r_fn>>

ConfigRead(t) ==
    /\ todo[t] # <<>> /\ Ahead(t).op = "if"
    /\ todo' = [todo EXCEPT ![t] =
                    (IF FlagValue(Ahead(t).m) THEN Ahead(t).then ELSE Ahead(t).else)
                        \o Tail(@)]
    /\ UNCHANGED <<clock, cfgvars, statevars, tickvars, histvars, timingvars, previewvars, holder, r_fn,
                   show_main_window, upcoming_panel_enabled>>

LocksInit ==
    /\ clock = StartClock
    /\ tracks = <<>>
    /\ tracked_events = {}
    /\ oneshot_events = {}
    /\ notification_config = NotificationConfig(3)
    /\ StateInit
    /\ t_in = IdleTiming
    /\ t_out = NoTiming
    /\ LocksIdle

LocksNext ==
    \/ RenderCall
    \/ KeybindCall
    \/ \E t \in Threads : MutexLock(t)
    \/ \E t \in Threads : MutexUnlock(t)
    \/ \E t \in Threads : ConfigWrite(t)
    \/ \E t \in Threads : ConfigRead(t)

SpecLocks == LocksInit /\ [][LocksNext]_vars

----------------------------------------------------------------------------
(* The toast interface of NotificationState on its own, under any sequence *)
(* of calls                                                                *)

ToastState ==
    [toast_queue |-> toast_queue, next_toast_id |-> next_toast_id,
     last_toast_time |-> last_toast_time, preview_toast |-> preview_toast]

show_preview_SameId(st) ==
    [st EXCEPT !.preview_toast =
                   <<[id |-> st.next_toast_id,
                      event_id |-> TrackedEventId("Example Track", "Example Event"),
                      event_start_time |-> 0,
                      minutes_until |-> 5,
                      created_at |-> clock,
                      opacity |-> Res,
                      dismissed |-> FALSE]>>]

show_preview(st) ==
    [st EXCEPT !.preview_toast =
                   <<[id |-> st.next_toast_id,
                      event_id |-> TrackedEventId("Example Track", "Example Event"),
                      event_start_time |-> 0,
                      minutes_until |-> 5,
                      created_at |-> clock,
                      opacity |-> Res,
                      dismissed |-> FALSE]>>,
               !.next_toast_id = @ + 1]

update_preview(st, toast_duration) ==
    IF st.preview_toast = <<>> THEN st
    ELSE LET preview == st.preview_toast[1]
             elapsed == clock - preview.created_at
             fade_start == toast_duration - FadeSeconds * Res
             faded == IF elapsed > fade_start
                      THEN Max(toast_duration - elapsed, 0)
                      ELSE preview.opacity
         IN  IF elapsed > toast_duration \/ preview.dismissed
             THEN [st EXCEPT !.preview_toast = <<>>]
             ELSE [st EXCEPT !.preview_toast = <<[preview EXCEPT !.opacity = faded]>>]

ToastVars == <<toast_queue, next_toast_id, last_toast_time, preview_toast>>

Stored(st) ==
    /\ toast_queue' = st.toast_queue
    /\ next_toast_id' = st.next_toast_id
    /\ last_toast_time' = st.last_toast_time
    /\ preview_toast' = st.preview_toast

ToastFrame ==
    UNCHANGED <<cfgvars, notified_reminders, ongoing_last_notified, event_last_notified,
                upcoming_events, last_refresh_time, tickvars, histvars, timingvars, lockvars>>

ToastDuration == notification_config.toast_duration_seconds * Res

\* a reminder fires for one of the events
CallAddToast(event_id) ==
    /\ next_toast_id < MaxToasts
    /\ Stored(add_toast(ToastState, event_id, 0, 1, clock \div Res))
    /\ calls' = Append(calls, [call |-> "add_toast",
                               id |-> toast_queue'[Len(toast_queue')].id])
    /\ UNCHANGED clock /\ ToastFrame

\* the Preview button of the settings panel
CallShowPreview ==
    /\ next_toast_id < MaxToasts
    /\ Stored(show_preview(ToastState))
    /\ calls' = Append(calls, [call |-> "show_preview", id |-> preview_toast'[1].id])
    /\ UNCHANGED clock /\ ToastFrame

CallUpdateToasts ==
    /\ toast_queue' = update_toasts(toast_queue, ToastDuration,
                                    notification_config.max_visible_toasts)
    /\ UNCHANGED <<clock, next_toast_id, last_toast_time, preview_toast, calls>>
    /\ ToastFrame

CallUpdatePreview ==
    /\ Stored(update_preview(ToastState, ToastDuration))
    /\ UNCHANGED <<clock, calls>> /\ ToastFrame

\* the close button of a queued toast
CallDismiss(i) ==
    /\ i \in DOMAIN toast_queue /\ ~toast_queue[i].dismissed
    /\ toast_queue' = [toast_queue EXCEPT ![i].dismissed = TRUE]
    /\ calls' = Append(calls, [call |-> "dismiss", id |-> toast_queue[i].id])
    /\ UNCHANGED <<clock, next_toast_id, last_toast_time, preview_toast>>
    /\ ToastFrame

\* a second passes; time stops mattering once every toast is overdue
SecondPasses ==
    /\ toast_queue \o preview_toast # <<>>
    /\ \A i \in DOMAIN (toast_queue \o preview_toast) :
           clock - (toast_queue \o preview_toast)[i].created_at <= ToastDuration
    /\ clock' = clock + Res
    /\ UNCHANGED <<ToastVars, calls>> /\ ToastFrame

ToastsInit ==
    /\ clock = StartClock
    /\ tracks = <<>>
    /\ tracked_events = {}
    /\ oneshot_events = {}
    /\ \E max_visible \in 1..(MaxToasts - 1) :
          notification_config =
              [NotificationConfig(max_visible) EXCEPT
                   !.toast_duration_seconds = MinToastDurationSeconds]
    /\ StateInit
    /\ t_in = IdleTiming
    /\ t_out = NoTiming
    /\ LocksIdle

ToastsNext ==
    \/ CallAddToast(Id(EventA))
    \/ CallShowPreview
    \/ CallUpdateToasts
    \/ CallUpdatePreview
    \/ \E i \in DOMAIN toast_queue : CallDismiss(i)
    \/ SecondPasses

SpecToasts == ToastsInit /\ [][ToastsNext]_vars

----------------------------------------------------------------------------
(* Several events entering the window of one lead reminder in the same     *)
(* second, with one frame per second                                      *)

StormNames == <<"A", "B", "C">>

\* the occurrence starts 60 * minutes + 1 seconds after the session does
StormEvent(name, minutes) ==
    [name |-> name, start_offset |-> StartClock \div Res + minutes * SecondsPerMinute + 1,
     duration |-> 60, cycle_duration |-> 600, enabled |-> TRUE]

StormStart == tracks[1].events[1].start_offset

StormInit ==
    /\ clock = StartClock
    /\ \E k \in DOMAIN StormNames, minutes \in 1..2 :
          /\ tracks = <<Track([i \in 1..k |-> StormEvent(StormNames[i], minutes)])>>
          /\ tracked_events = {TrackedEventId("T", StormNames[i]) : i \in 1..k}
          /\ notification_config =
                 [NotificationConfig(3) EXCEPT !.reminders = <<Lead(minutes)>>]
    /\ oneshot_events = {}
    /\ StateInit
    /\ t_in = IdleTiming
    /\ t_out = NoTiming
    /\ LocksIdle

\* lines 8-18, called by a host that renders one frame per second until the
\* occurrences start
FrameSnapshot ==
    /\ pc = "idle" /\ ~panicked /\ clock < StormStart * Res
    /\ clock' = clock + Res
    /\ current_time' = clock' \div Res
    /\ snap' = [tracked_events |-> tracked_events, oneshot_events |-> oneshot_events,
                notification_config |-> notification_config, tracks |-> tracks]
    /\ oneshot_to_remove' = <<>>
    /\ pc' = IF tracked_events = {} /\ oneshot_events = {} THEN "early" ELSE "locked"
    /\ ticks' = ticks + 1
    /\ UNCHANGED <<cfgvars, statevars, panicked, minted, evals, prev, dirty, ops, timingvars,
                   lockvars, previewvars>>

StormNext ==
    \/ FrameSnapshot
    \/ TickLocked

SpecStorm == StormInit /\ [][StormNext]_vars

----------------------------------------------------------------------------
(* Properties of the scheduler *)

Pairs == {ij \in (DOMAIN minted) \X (DOMAIN minted) : ij[1] < ij[2]}

SameTriple(x, y) ==
    /\ x.event_id = y.event_id
    /\ x.start_time = y.start_time
    /\ x.minutes_before = y.minutes_before

\* C1: no two lead toasts (minutes_before > 0) are ever minted for the same
\* (EventId, occurrence start_time, minutes_before), however often and whenever
\* update_notifications runs and whatever the ledger's garbage collection drops.
C1_DedupLeadToast ==
    \A ij \in Pairs :
        minted[ij[1]].minutes_before > 0 => ~SameTriple(minted[ij[1]], minted[ij[2]])

\* C1 happens: a lead toast was minted and the ledger has since been refreshed at
\* least EventCooldownSeconds later, with its occurrence still ahead or under way
C1_Witness ==
    \E i \in DOMAIN minted :
        /\ minted[i].minutes_before > 0
        /\ pc = "idle"
        /\ last_refresh_time >= minted[i].time + EventCooldownSeconds
        /\ last_refresh_time < minted[i].start_time + minted[i].duration

\* C2: the creation times of any two minted toasts differ by at least 2 seconds.
C2_GlobalCooldown ==
    \A ij \in Pairs : minted[ij[2]].time - minted[ij[1]].time >= GlobalCooldownSeconds

\* C2 happens: two events were inside a reminder's window in the same refresh and
\* the second was held back by the global cooldown alone
C2_Witness ==
    /\ Len(minted) >= 1
    /\ \E k \in DOMAIN evals :
        /\ evals[k].minutes_before > 0
        /\ LeadWindow(evals[k].seconds_until, evals[k].minutes_before * SecondsPerMinute)
        /\ ~evals[k].can_add /\ evals[k].can_notify /\ ~evals[k].was_notified
        /\ ~evals[k].fired

\* C3: any two toasts minted for the same EventId are at least 30 seconds apart.
C3_EventCooldown ==
    \A ij \in Pairs :
        minted[ij[1]].event_id = minted[ij[2]].event_id
            => minted[ij[2]].time - minted[ij[1]].time >= EventCooldownSeconds

\* C3 happens: one event has got two toasts, from different reminders
C3_Witness ==
    \E ij \in Pairs :
        /\ minted[ij[1]].event_id = minted[ij[2]].event_id
        /\ minted[ij[1]].minutes_before # minted[ij[2]].minutes_before


CallReturns == pc # "idle" /\ pc' = "idle"

\* C4: in the state a call of update_notifications leaves behind, the toast queue
\* holds at most max_visible_toasts entries (the value the call worked with).
C4_QueueBound ==
    (pc = "idle" /\ ticks > 0)
        => Len(toast_queue) <= snap.notification_config.max_visible_toasts

\* C5: when a call of update_notifications returns, the queue holds no dismissed
\* toast and no toast older than toast_duration, whether or not the call refreshed.
C5_ExpiryEveryCall ==
    [][CallReturns =>
          \A i \in DOMAIN toast_queue' :
              /\ ~toast_queue'[i].dismissed
              /\ clock' - toast_queue'[i].created_at
                     <= snap.notification_config.toast_duration_seconds * Res]_vars

SecondCallSameTime == CallReturns /\ current_time = prev.time /\ ~dirty

\* C6 as claimed: a second call with the same current_time and no change of tracks,
\* subscriptions or configuration in between leaves the upcoming projection of the
\* first, mints nothing and leaves the ledger as it was.
C6_IdempotentTick ==
    [][SecondCallSameTime =>
          /\ upcoming_events' = prev.upcoming
          /\ Len(minted') = prev.nminted
          /\ Ledger' = prev.ledger]_vars

\* C6 amended: as above, except that a second call which finds both subscription
\* sets empty (the first call consumed the last one-shot subscription) clears the
\* upcoming projection; it still mints nothing and leaves the ledger as it was.
C6_IdempotentTickAmended ==
    [][SecondCallSameTime =>
          /\ upcoming_events' = IF snap.tracked_events = {} /\ snap.oneshot_events = {}
                                THEN <<>> ELSE prev.upcoming
          /\ Len(minted') = prev.nminted
          /\ Ledger' = prev.ledger]_vars

\* C6 happens: a second call at the time of a first that refreshed has returned,
\* with entries in the projection and a toast minted by the first
C6_Witness ==
    /\ pc = "idle" /\ prev.repeat
    /\ prev.time = last_refresh_time
    /\ prev.upcoming # <<>>
    /\ \E i \in DOMAIN minted : minted[i].time = prev.time

BadEventIds ==
    {TrackedEventId(tracks[i].name, tracks[i].events[j].name) :
         <<i, j>> \in {ij \in (DOMAIN tracks) \X (1..3) :
                           /\ ij[2] \in DOMAIN tracks[ij[1]].events
                           /\ tracks[ij[1]].events[ij[2]].cycle_duration <= 0}}

\* C7: an event with cycle_duration <= 0 is skipped: the call does not panic, and
\* the event gets no upcoming entry and no toast.
C7_BadEntrySkipped ==
    /\ ~panicked
    /\ \A i \in DOMAIN minted : minted[i].event_id \notin BadEventIds
    /\ \A i \in DOMAIN upcoming_events : upcoming_events[i].event_id \notin BadEventIds

TimingActive == t_out.seconds_until = 0 /\ t_out.seconds_into >= 0
TimingPending == t_out.seconds_into = -1

\* C8: for cycle_duration > 0, duration > 0 and any start_offset, base_time and
\* current_time, the result is exactly one of active and pending, and when pending
\* seconds_until lies in [0, cycle_duration).
C8_ModularCorrectness ==
    (t_out.done /\ t_in.cycle_duration > 0) =>
        /\ t_out.ok
        /\ TimingActive # TimingPending
        /\ TimingPending =>
               (t_out.seconds_until >= 0 /\ t_out.seconds_until < t_in.cycle_duration)

InLeadWindow(x) ==
    x.seconds_until > 0 /\ x.seconds_until <= SecondsPerMinute * x.minutes_before

\* C9: a lead toast (minutes_before = m > 0) is minted only while the event is
\* pending with 0 < seconds_until <= 60*m; a lead reminder evaluated inside that
\* window (boundary included) with both cooldowns clear and no NotifiedKey recorded
\* mints exactly one toast for the occurrence; and no toast follows one second
\* later for the same occurrence.
C9_LeadGate ==
    /\ \A i \in DOMAIN minted :
           minted[i].minutes_before > 0
               => minted[i].seconds_into = -1 /\ InLeadWindow(minted[i])
    /\ \A k \in DOMAIN evals :
           (/\ evals[k].minutes_before > 0
            /\ InLeadWindow(evals[k])
            /\ evals[k].can_add /\ evals[k].can_notify /\ ~evals[k].was_notified)
               => /\ evals[k].fired
                  /\ Cardinality({i \in DOMAIN minted : SameTriple(minted[i], evals[k])}) = 1
    /\ \A ij \in Pairs :
           (/\ minted[ij[1]].minutes_before > 0
            /\ minted[ij[1]].event_id = minted[ij[2]].event_id
            /\ minted[ij[1]].start_time = minted[ij[2]].start_time)
               => minted[ij[2]].time # minted[ij[1]].time + 1

\* C9 happens: a lead toast was minted on the boundary seconds_until = 60*m and
\* the next refresh came one second later, with the same occurrence still pending
C9_Witness ==
    \E i \in DOMAIN minted :
        /\ minted[i].minutes_before > 0
        /\ minted[i].seconds_until = SecondsPerMinute * minted[i].minutes_before
        /\ last_refresh_time = minted[i].time + 1
        /\ \E k \in DOMAIN evals :
               SameTriple(evals[k], minted[i]) /\ InLeadWindow(evals[k]) /\ ~evals[k].fired

\* C10: an ongoing toast (minutes_before = 0) is minted only while the event is
\* active and more than one interval of it remains: duration - seconds_into > interval.
C10_OngoingSuppression ==
    \A i \in DOMAIN minted :
        minted[i].minutes_before = 0
            => /\ minted[i].seconds_into >= 0
               /\ minted[i].duration - minted[i].seconds_into > minted[i].interval

\* C10 happens: an ongoing toast has been minted, and an ongoing reminder was
\* evaluated for an active event with no more than one interval remaining
C10_Witness ==
    /\ \E i \in DOMAIN minted : minted[i].minutes_before = 0
    /\ \E k \in DOMAIN evals :
           /\ evals[k].minutes_before = 0
           /\ evals[k].seconds_into >= 0
           /\ evals[k].duration - evals[k].seconds_into <= evals[k].interval
           /\ ~evals[k].fired

----------------------------------------------------------------------------
(* Properties of the occurrence calculator *)

TimingWellFormed ==
    /\ t_in.start_offset >= 0
    /\ t_in.duration > 0
    /\ t_in.start_offset + t_in.duration <= t_in.cycle_duration

\* the Euclidean phase of the reference, for cycle_duration > 0
TimingPhase == (t_in.now - t_in.base_time) % t_in.cycle_duration

\* C11: for 0 <= start_offset, duration > 0 and start_offset + duration <=
\* cycle_duration, with phase = (now - base_time) mod cycle_duration: when
\* start_offset <= phase < start_offset + duration the result is active with
\* seconds_into = phase - start_offset and start_time = now - seconds_into;
\* otherwise it is pending with seconds_until = (start_offset - phase) mod
\* cycle_duration and start_time = now + seconds_until.
C11_OccurrenceReference ==
    (t_out.done /\ TimingWellFormed) =>
        /\ t_out.ok
        /\ IF t_in.start_offset <= TimingPhase
              /\ TimingPhase < t_in.start_offset + t_in.duration
           THEN /\ TimingActive
                /\ t_out.seconds_into = TimingPhase - t_in.start_offset
                /\ t_out.start_time = t_in.now - t_out.seconds_into
           ELSE /\ TimingPending
                /\ t_out.seconds_until =
                       (t_in.start_offset - TimingPhase) % t_in.cycle_duration
                /\ t_out.start_time = t_in.now + t_out.seconds_until

\* C11 happens: a well-formed event was asked about before its anchor, after its
\* window of the running cycle, and the next cycle's occurrence was reported
C11_Witness ==
    /\ t_out.done /\ TimingWellFormed
    /\ t_in.now < t_in.base_time
    /\ TimingPhase >= t_in.start_offset + t_in.duration
    /\ TimingPending
    /\ t_out.seconds_until = (t_in.start_offset + t_in.cycle_duration) - TimingPhase

\* C11 happens on the worked example: pending with 6900 seconds to go at 7500
C11_Scenario ==
    /\ t_out.done /\ t_in \in TimingScenarios
    /\ t_in.now = 7500 /\ TimingPending /\ t_out.seconds_until = 6900

\* C12: an event with duration >= cycle_duration > 0 is reported active at every
\* current_time, whatever its start_offset.
C12_AlwaysOn ==
    (t_out.done /\ t_in.cycle_duration > 0 /\ t_in.duration >= t_in.cycle_duration)
        => (t_out.ok /\ TimingActive)

NormalisedTiming ==
    calculate_event_timing([base_time |-> t_in.base_time],
                           [start_offset |-> t_in.start_offset % t_in.cycle_duration,
                            duration |-> t_in.duration,
                            cycle_duration |-> t_in.cycle_duration],
                           t_in.now)

\* C13: for cycle_duration > 0 and any integer start_offset the result (verdict,
\* start_time, seconds_until, seconds_into) is the one obtained with start_offset
\* replaced by start_offset mod cycle_duration.
C13_OffsetNormalised ==
    (t_out.done /\ t_in.cycle_duration > 0) =>
        /\ t_out.ok = NormalisedTiming.ok
        /\ t_out.start_time = NormalisedTiming.start_time
        /\ t_out.seconds_until = NormalisedTiming.seconds_until
        /\ t_out.seconds_into = NormalisedTiming.seconds_into

----------------------------------------------------------------------------
(* Properties of the subscription store and the projection *)

\* the last step of a call that went past the throttle, by return or by panic
RefreshEnds ==
    /\ pc = "remove" \/ (pc = "locked" /\ needs_refresh(current_time))
    /\ pc' \in {"idle", "panic"}

\* the one-shot subscriptions of the snapshot whose event, enabled and in a visible
\* track, is active at current_time
ActiveOneshots ==
    {id \in snap.oneshot_events :
        \E i \in DOMAIN snap.tracks : \E j \in DOMAIN snap.tracks[i].events :
            LET track == snap.tracks[i]
                event == track.events[j]
            IN  /\ track.visible /\ event.enabled
                /\ TrackedEventId(track.name, event.name) = id
                /\ event.cycle_duration # 0
                /\ calculate_event_timing(track, event, current_time).seconds_into >= 0}

\* C14: a call that goes past the throttle leaves the one-shot set of its snapshot
\* minus exactly the one-shot subscriptions whose event it found active (pending
\* ones stay), and no step of a call changes the persistent set.
C14_OneshotConsumption ==
    [][/\ RefreshEnds => oneshot_events' = snap.oneshot_events \ ActiveOneshots
       /\ (pc # "idle" \/ ticks' # ticks) => tracked_events' = tracked_events]_vars

\* the subscribed, enabled events of the snapshot's visible tracks that have a
\* timing at current_time, each with its EventId and that timing
Candidates ==
    UNION {{[id |-> TrackedEventId(snap.tracks[i].name, snap.tracks[i].events[j].name),
             i |-> i, j |-> j] :
                j \in {j \in DOMAIN snap.tracks[i].events :
                          /\ snap.tracks[i].visible
                          /\ snap.tracks[i].events[j].enabled
                          /\ snap.tracks[i].events[j].cycle_duration # 0
                          /\ TrackedEventId(snap.tracks[i].name,
                                            snap.tracks[i].events[j].name)
                                 \in snap.tracked_events \cup snap.oneshot_events}} :
           i \in DOMAIN snap.tracks}

CandidateTiming(c) ==
    calculate_event_timing(snap.tracks[c.i], snap.tracks[c.i].events[c.j], current_time)

Min(a, b) == IF a <= b THEN a ELSE b

\* what C15 asks of a projection
ProjectionOf(upcoming) ==
    /\ \A k \in 1..(Len(upcoming) - 1) :
           upcoming[k].seconds_until <= upcoming[k + 1].seconds_until
    /\ Len(upcoming) = Min(snap.notification_config.max_upcoming_events,
                           Cardinality(Candidates))
    /\ \A k, m \in DOMAIN upcoming : k # m => upcoming[k].event_id # upcoming[m].event_id
    /\ \A k \in DOMAIN upcoming :
           \E c \in Candidates :
               /\ c.id = upcoming[k].event_id
               /\ CandidateTiming(c).seconds_until = upcoming[k].seconds_until
               /\ CandidateTiming(c).start_time = upcoming[k].start_time
    \* those left out are no sooner than those kept
    /\ \A c \in Candidates :
           (\A k \in DOMAIN upcoming : upcoming[k].event_id # c.id)
               => \A k \in DOMAIN upcoming :
                      upcoming[k].seconds_until <= CandidateTiming(c).seconds_until
    \* nothing is listed before an active event but active events
    /\ \A c, d \in Candidates :
           \A k, m \in DOMAIN upcoming :
               (/\ k < m
                /\ upcoming[k].event_id = c.id /\ upcoming[m].event_id = d.id
                /\ CandidateTiming(d).seconds_into >= 0)
                   => CandidateTiming(c).seconds_into >= 0

\* C15: after a call that goes past the throttle, upcoming_events is sorted by
\* seconds_until (non-decreasing, active events first), has at most
\* max_upcoming_events entries, and holds the subscribed, enabled events of visible
\* tracks with the smallest seconds_until.
C15_ProjectionOrderCap ==
    [][RefreshEnds => ProjectionOf(upcoming_events')]_vars

----------------------------------------------------------------------------
(* Properties of the locks *)

\* C16: no thread is ever inside the config mutex (RUNTIME_CONFIG) and the state
\* mutex (NOTIFICATION_STATE) at the same time.
C16_LockDiscipline ==
    \A t \in Threads : ~(holder[RC] = t /\ holder[NS] = t)

\* the threads that wait for a mutex, and the thread each of them waits for
Waiting == {t \in Threads : todo[t] # <<>> /\ Ahead(t).op = "lock"
                                /\ holder[Ahead(t).m] # "none"}

WaitsFor(t) == holder[Ahead(t).m]

\* C17: no thread waits forever for a mutex: none asks for a mutex it holds itself,
\* and no thread waits for a thread that is itself waiting.
C17_NoUnboundedBlocking ==
    \A t \in Waiting : WaitsFor(t) # t /\ WaitsFor(t) \notin Waiting

----------------------------------------------------------------------------
(* Properties of the subscription store with the settings panel *)

\* C19: no event id is in both the persistent set and the one-shot set.
C19_SubscriptionPartition == tracked_events \cap oneshot_events = {}

----------------------------------------------------------------------------
(* Properties of the fade *)

UpdateToastsRan == pc = "locked" /\ pc' # "locked"

\* C18: after each update_toasts a toast that is not dismissed has opacity 1.0
\* while elapsed <= D - 1 s and D - elapsed while D - 1 s < elapsed < D, and it
\* has left the queue once elapsed >= D; the opacity of every queued toast is
\* always within (0, 1].
C18_FadeDeterminism ==
    /\ [](\A i \in DOMAIN toast_queue :
             toast_queue[i].opacity > 0 /\ toast_queue[i].opacity <= Res)
    /\ [][UpdateToastsRan =>
             \A i \in DOMAIN toast_queue' :
                 LET D == snap.notification_config.toast_duration_seconds * Res
                     elapsed == clock' - toast_queue'[i].created_at
                 IN  /\ ~toast_queue'[i].dismissed
                     /\ elapsed < D
                     /\ elapsed <= D - FadeSeconds * Res => toast_queue'[i].opacity = Res
                     /\ elapsed > D - FadeSeconds * Res => toast_queue'[i].opacity = D - elapsed]_vars

C18_Witness ==
    /\ pc = "idle"
    /\ \E i \in DOMAIN toast_queue :
          /\ ~toast_queue[i].dismissed
          /\ 0 < toast_queue[i].opacity /\ toast_queue[i].opacity < Res
          /\ toast_queue[i].opacity =
                 snap.notification_config.toast_duration_seconds * Res
                   - (clock - toast_queue[i].created_at)

----------------------------------------------------------------------------
(* Properties of the scope of a refresh *)

\* the ids of the enabled events of visible tracks that the snapshot subscribes
Eligible(sn) ==
    UNION {{TrackedEventId(sn.tracks[i].name, sn.tracks[i].events[j].name) :
              j \in {k \in DOMAIN sn.tracks[i].events : sn.tracks[i].events[k].enabled}}
           : i \in {k \in DOMAIN sn.tracks : sn.tracks[k].visible}}
      \cap (sn.tracked_events \cup sn.oneshot_events)

Changed(m1, m2) == {k \in DOMAIN m2 : k \notin DOMAIN m1 \/ m1[k] # m2[k]}

\* C20: every upcoming entry built, every toast minted and every ledger record
\* written by a call belongs to an event that, in the call's snapshot, is enabled,
\* sits in a visible track and is in the persistent or the one-shot set.
C20_ProcessingScope ==
    [][(pc = "locked" /\ pc' # "locked") =>
          /\ \A i \in DOMAIN minted' : i > Len(minted) => minted'[i].event_id \in Eligible(snap)
          /\ \A i \in DOMAIN toast_queue' :
                 toast_queue'[i].id >= next_toast_id
                     => toast_queue'[i].event_id \in Eligible(snap)
          /\ (needs_refresh(current_time) /\ pc' # "panic")
                 => \A i \in DOMAIN upcoming_events' :
                        upcoming_events'[i].event_id \in Eligible(snap)
          /\ needs_refresh(current_time)
                 => \A i \in DOMAIN evals' : evals'[i].event_id \in Eligible(snap)
          /\ \A key \in notified_reminders' \ notified_reminders :
                 key.event_id \in Eligible(snap)
          /\ \A key \in Changed(ongoing_last_notified, ongoing_last_notified') :
                 key.event_id \in Eligible(snap)
          /\ \A id \in Changed(event_last_notified, event_last_notified') :
                 id \in Eligible(snap)]_vars

\* C20 happens: a refresh has built entries and minted a toast while a subscribed
\* event that is disabled or sits in a hidden track was inside a lead window
C20_Witness ==
    /\ pc = "idle" /\ last_refresh_time = current_time
    /\ upcoming_events # <<>>
    /\ \E i \in DOMAIN minted : minted[i].time = current_time
    /\ \E i \in DOMAIN snap.tracks : \E j \in DOMAIN snap.tracks[i].events :
          LET track == snap.tracks[i]
              event == track.events[j]
              tm == calculate_event_timing(track, event, current_time)
          IN  /\ TrackedEventId(track.name, event.name) \in snap.tracked_events
              /\ ~track.visible \/ ~event.enabled
              /\ tm.ok /\ LeadWindow(tm.seconds_until, SecondsPerMinute)

----------------------------------------------------------------------------
(* Properties of the fast path and of the ledger *)

NothingSubscribed(sn) == sn.tracked_events = {} /\ sn.oneshot_events = {}

\* C21: a call whose snapshot holds no subscription clears upcoming_events and
\* leaves the toast queue, the id counter, the ledger tables, last_refresh_time
\* and the subscription store unchanged; such a call takes no other path.
C21_FastPath ==
    /\ [](pc \in {"early", "locked", "remove"} => (pc = "early" <=> NothingSubscribed(snap)))
    /\ [][(pc = "early" /\ pc' # "early") =>
             /\ pc' = "idle"
             /\ upcoming_events' = <<>>
             /\ UNCHANGED <<toast_queue, next_toast_id, notified_reminders,
                            ongoing_last_notified, event_last_notified, last_toast_time,
                            last_refresh_time, tracked_events, oneshot_events>>]_vars

\* C21 happens: the fast path has returned while a toast of an earlier refresh,
\* by now inside its fade interval, was queued
C21_Witness ==
    /\ pc = "idle" /\ ticks > 1 /\ NothingSubscribed(snap)
    /\ upcoming_events = <<>>
    /\ prev.time = current_time /\ prev.upcoming = <<>>
    /\ \E i \in DOMAIN toast_queue :
          clock - toast_queue[i].created_at
              > (snap.notification_config.toast_duration_seconds - FadeSeconds) * Res

RefreshRan == pc = "locked" /\ pc' # "locked" /\ needs_refresh(current_time)

\* the ledger once cleanup_old_notifications has run at the head of the refresh
CleanedLedger == cleanup_old_notifications(Ledger, current_time)

\* C22: a call that mints a toast at time now sets the global instant and the
\* event's cooldown instant to now and records the key of the reminder's kind
\* (NotifiedKey with minutes_before verbatim for a lead reminder, OngoingKey -> now
\* for an ongoing one) and not the other kind's key; blocked evaluations write
\* nothing to the ledger and add nothing to the queue.
C22_LedgerWritesOnMint ==
    [][RefreshRan =>
          LET base == CleanedLedger
              m == minted'[Len(minted')]
          IN  IF Len(minted') = Len(minted)
              THEN /\ notified_reminders' = base.notified_reminders
                   /\ ongoing_last_notified' = base.ongoing_last_notified
                   /\ event_last_notified' = base.event_last_notified
                   /\ last_toast_time' = last_toast_time
                   /\ next_toast_id' = next_toast_id
                   /\ \A i \in DOMAIN toast_queue' : toast_queue'[i].id < next_toast_id
              ELSE /\ Len(minted') = Len(minted) + 1
                   /\ m.time = current_time
                   /\ last_toast_time' = current_time
                   /\ event_last_notified' =
                          MapInsert(base.event_last_notified, m.event_id, current_time)
                   /\ IF m.minutes_before > 0
                      THEN /\ notified_reminders' = base.notified_reminders \cup
                                  {NotifiedKey(m.event_id, m.start_time, m.minutes_before)}
                           /\ ongoing_last_notified' = base.ongoing_last_notified
                      ELSE /\ notified_reminders' = base.notified_reminders
                           /\ ongoing_last_notified' =
                                  MapInsert(base.ongoing_last_notified,
                                            OngoingNotificationKey(m.event_id, m.start_time),
                                            current_time)]_vars

\* C22 happens: the latest refresh minted a toast and also evaluated a reminder
\* that was inside its window and was blocked by a gate
C22_Witness ==
    /\ pc = "idle" /\ last_refresh_time = current_time
    /\ \E i \in DOMAIN evals : evals[i].fired
    /\ \E i \in DOMAIN evals :
          /\ ~evals[i].fired /\ evals[i].minutes_before > 0
          /\ LeadWindow(evals[i].seconds_until, evals[i].minutes_before * SecondsPerMinute)
          /\ ~evals[i].can_add \/ ~evals[i].can_notify \/ evals[i].was_notified

Cutoff(now) == now - NotifiedKeepSeconds

\* C23: cleanup_old_notifications(now) removes exactly the NotifiedKeys and
\* OngoingKeys whose start is older than now - 86400 s and exactly the per-event
\* entries older than now - 300 s; it runs once per refresh before any event is
\* evaluated, and after every refresh the ledger holds no NotifiedKey or OngoingKey
\* with a start older than now - 86400 s.
C23_LedgerGC ==
    [][RefreshRan =>
          /\ CleanedLedger.notified_reminders =
                 {key \in notified_reminders : ~(key.start_time < Cutoff(current_time))}
          /\ DOMAIN CleanedLedger.ongoing_last_notified =
                 {key \in DOMAIN ongoing_last_notified :
                      ~(key.start_time < Cutoff(current_time))}
          /\ DOMAIN CleanedLedger.event_last_notified =
                 {e \in DOMAIN event_last_notified :
                      ~(event_last_notified[e] < current_time - EventCooldownKeepSeconds)}
          /\ \A key \in notified_reminders' \cup DOMAIN ongoing_last_notified' :
                 key.start_time >= Cutoff(current_time)]_vars

OngoingPairs ==
    {ij \in Pairs : /\ minted[ij[1]].minutes_before = 0
                    /\ minted[ij[2]].minutes_before = 0
                    /\ minted[ij[1]].event_id = minted[ij[2]].event_id
                    /\ minted[ij[1]].start_time = minted[ij[2]].start_time}

\* C24: with a single ongoing reminder configured, any two ongoing toasts minted
\* for the same event and occurrence start are at least interval seconds apart,
\* for events of any duration and cycle length and across ledger garbage collection.
C24_OngoingRateLimit ==
    \A ij \in OngoingPairs :
        minted[ij[2]].time - minted[ij[1]].time >= minted[ij[1]].interval

----------------------------------------------------------------------------
(* Properties of the toast queue *)

Ids(queue) == [i \in DOMAIN queue |-> queue[i].id]

LiveToast(toast) == ~toast.dismissed /\ clock - toast.created_at < ToastDuration

LastOf(s, n) == IF Len(s) > n THEN SubSeq(s, Len(s) - n + 1, Len(s)) ELSE s

AddCalls == SelectSeq(calls, LAMBDA c : c.call = "add_toast")

\* C25: update_toasts leaves the max_visible most recently minted live toasts, in
\* their original order, and the queue is always ordered by strictly increasing id.
C25_OldestFirstEviction ==
    /\ [](\A i, j \in DOMAIN toast_queue : i < j => toast_queue[i].id < toast_queue[j].id)
    /\ [][CallUpdateToasts =>
             Ids(toast_queue') =
                 LastOf(Ids(SelectSeq(toast_queue, LiveToast)),
                        notification_config.max_visible_toasts)]_vars

\* C25 happens: more toasts than max_visible were added, none was dismissed and none
\* has expired, and the queue now holds the last max_visible of them
C25_Witness ==
    /\ Len(AddCalls) > notification_config.max_visible_toasts
    /\ \A i \in DOMAIN calls : calls[i].call # "dismiss"
    /\ clock - StartClock < ToastDuration
    /\ Ids(toast_queue) =
           LastOf([i \in DOMAIN AddCalls |-> AddCalls[i].id],
                  notification_config.max_visible_toasts)

Allocations == SelectSeq(calls, LAMBDA c : c.call \in {"add_toast", "show_preview"})

\* C26: over any sequence of add_toast and show_preview calls every toast, queued
\* or preview, receives an id strictly greater than every id allocated before it.
C26_IdAllocation ==
    /\ \A i, j \in DOMAIN Allocations : i < j => Allocations[i].id < Allocations[j].id
    /\ \A i \in DOMAIN (toast_queue \o preview_toast) :
           /\ (toast_queue \o preview_toast)[i].id < next_toast_id
           /\ \E j \in DOMAIN Allocations :
                  Allocations[j].id = (toast_queue \o preview_toast)[i].id

\* C26 happens: a toast was added after a preview, after an earlier toast
C26_Witness ==
    \E i, j, k \in DOMAIN Allocations :
        /\ i < j /\ j < k
        /\ Allocations[i].call = "add_toast"
        /\ Allocations[j].call = "show_preview"
        /\ Allocations[k].call = "add_toast"

----------------------------------------------------------------------------
(* Properties of one call *)

\* a reminder evaluation whose window is open and whose gates pass on the ledger
\* as the refresh finds it
EligibleAtStart(e) ==
    /\ can_add_toast(CleanedLedger, current_time)
    /\ can_notify_event(CleanedLedger, e.event_id, current_time)
    /\ IF e.minutes_before = 0
       THEN /\ e.seconds_into >= 0
            /\ NotLastInterval(e.duration - e.seconds_into, e.interval)
            /\ should_show_ongoing(CleanedLedger, e.event_id, e.start_time, current_time,
                                   e.interval)
       ELSE /\ LeadWindow(e.seconds_until, e.minutes_before * SecondsPerMinute)
            /\ ~was_notified(CleanedLedger, e.event_id, e.start_time, e.minutes_before)

\* C27: one call of update_notifications mints at most one toast, and the toast
\* minted is the first eligible one in track, event and reminder order.
C27_OneToastPerTick ==
    [][RefreshRan =>
          /\ Len(minted') <= Len(minted) + 1
          /\ \A i \in DOMAIN evals' :
                 evals'[i].fired <=>
                     /\ EligibleAtStart(evals'[i])
                     /\ \A j \in 1..(i - 1) : ~EligibleAtStart(evals'[j])]_vars

\* C27 happens: the latest refresh minted a toast and left a reminder of another
\* event, inside its window and not yet notified, to the global cooldown alone
C27_Witness ==
    /\ pc = "idle" /\ last_refresh_time = current_time
    /\ \E i, j \in DOMAIN evals :
          /\ i < j
          /\ evals[i].fired /\ ~evals[j].fired
          /\ evals[i].event_id # evals[j].event_id
          /\ evals[j].minutes_before > 0
          /\ LeadWindow(evals[j].seconds_until, evals[j].minutes_before * SecondsPerMinute)
          /\ ~evals[j].can_add /\ evals[j].can_notify /\ ~evals[j].was_notified

----------------------------------------------------------------------------
(* Properties of the occurrence identity *)

\* C28: for 0 <= start_offset, duration > 0 and start_offset + duration <=
\* cycle_duration the start_time returned is congruent to base_time + start_offset
\* modulo cycle_duration, and the instant asked about lies between the end of the
\* previous occurrence and the end of the occurrence returned: every instant of
\* that span gets this start_time, and instants of different spans get different ones.
C28_OccurrenceIdentity ==
    (t_out.done /\ TimingWellFormed) =>
        /\ t_out.ok
        /\ (t_out.start_time - t_in.base_time - t_in.start_offset) % t_in.cycle_duration = 0
        /\ t_out.start_time + t_in.duration - t_in.cycle_duration <= t_in.now
        /\ t_in.now < t_out.start_time + t_in.duration

\* C28 happens: asked after the event has ended in its cycle, the calculator names
\* the occurrence of the next cycle
C28_Witness ==
    /\ t_out.done /\ TimingWellFormed
    /\ TimingPhase >= t_in.start_offset + t_in.duration
    /\ TimingPending
    /\ t_out.start_time = t_in.now - TimingPhase + t_in.cycle_duration + t_in.start_offset

----------------------------------------------------------------------------
(* Properties of the global cooldown under a storm *)

StormToasted(event_id) ==
    \E i \in DOMAIN minted :
        /\ minted[i].event_id = event_id
        /\ minted[i].start_time = StormStart
        /\ minted[i].time < StormStart

\* the second in which the events enter the window of the reminder
StormWindowOpens ==
    StormStart - notification_config.reminders[1].minutes_before * SecondsPerMinute

\* C29: with one lead reminder and k subscribed events entering its window in the
\* same second, one frame per second and 2 * k <= 60 * minutes_before, every event
\* has its toast for that occurrence 2 * (k - 1) seconds after the window opened,
\* which is before the occurrence starts, successive toasts being 2 seconds apart.
C29_StormDelayedNotDropped ==
    /\ (/\ pc = "idle" /\ ticks > 0
        /\ current_time >= StormWindowOpens
                             + GlobalCooldownSeconds * (Cardinality(tracked_events) - 1))
           => \A event_id \in tracked_events : StormToasted(event_id)
    /\ \A i \in DOMAIN minted :
           i > 1 => minted[i].time - minted[i - 1].time = GlobalCooldownSeconds

\* C29 happens: all of three events have their toast, the last one 4 seconds after
\* the window opened
C29_Witness ==
    /\ Cardinality(tracked_events) = Len(StormNames)
    /\ \A event_id \in tracked_events : StormToasted(event_id)
    /\ Len(minted) = Len(StormNames)
    /\ minted[Len(minted)].time = minted[1].time + 2 * GlobalCooldownSeconds
    /\ minted[Len(minted)].seconds_until
           = snap.notification_config.reminders[1].minutes_before * SecondsPerMinute
               - 2 * GlobalCooldownSeconds

----------------------------------------------------------------------------
(* Properties of a call with toasts disabled *)

SnapshotToastsOff == ~snap.notification_config.toast_enabled

UpcomingIds(upcoming) == {upcoming[k].event_id : k \in DOMAIN upcoming}

\* what a call with toasts disabled must leave when it ends
RebuiltWithoutToasts ==
    /\ pc' = "idle"
    /\ Len(upcoming_events') = Min(snap.notification_config.max_upcoming_events,
                                   Cardinality(Candidates))
    /\ UpcomingIds(upcoming_events') \subseteq {c.id : c \in Candidates}
    /\ oneshot_events' = oneshot_events \ ActiveOneshots

\* C30: a call whose snapshot has toast_enabled = false mints no toast and writes no
\* NotifiedKey, OngoingKey, per-event or global cooldown record, yet it rebuilds
\* upcoming_events and removes the one-shot subscriptions whose event is active,
\* whatever the hotkey does to toast_enabled after the snapshot was taken.
C30_ToastsDisabled ==
    [][SnapshotToastsOff =>
          /\ RefreshRan =>
                 /\ minted' = minted
                 /\ next_toast_id' = next_toast_id
                 /\ notified_reminders' \subseteq notified_reminders
                 /\ Changed(ongoing_last_notified, ongoing_last_notified') = {}
                 /\ Changed(event_last_notified, event_last_notified') = {}
                 /\ last_toast_time' = last_toast_time
          /\ RefreshEnds => RebuiltWithoutToasts]_vars

====
